---- MODULE Spec2Model ----
(***************************************************************************)
(* Dataset.py: parse the metalink manifest Dataset.meta4, then for every   *)
(* file element download its url into downloads/<name> and unzip it into   *)
(* data/<name without extension>/.                                         *)
(*                                                                         *)
(* A string is modelled as a sequence of one-character strings; the two    *)
(* literals "downloads" and "data" are single tokens of such a sequence    *)
(* (they hold neither "/" nor ".").  The file system is a map from file    *)
(* paths to contents (byte sequences) plus a set of folder paths.          *)
(***************************************************************************)
EXTENDS Integers, Sequences, FiniteSets, TLC

VARIABLES
    manifest,    \* Dataset.meta4 as found on disk (input, never written)
    pc,          \* position of the script
    run,         \* 1 in the first run of the program, 2 in the re-run
    files,       \* root.findall("ml:file", namespace)
    i,           \* index of the loop's current file element
    file_name,   \* loop local
    url,         \* loop local
    file_path,   \* loop local / download_file's destination_path, extract_zip's zip_path
    response,    \* download_file local
    pos,         \* download_file: index of the next chunk of response.iter_content
    bar,         \* download_file: the tqdm bar [total, n]
    extract_to,  \* extract_zip local
    fs_files,    \* file system: path -> content
    fs_dirs,     \* file system: set of folders
    stdout,      \* lines printed
    server,      \* what each url fetched so far returns (a stable source)
    events,      \* history: operations of the current run, in order
    fin,         \* history: fs_files as it was when entry k finished (current run)
    first        \* history: the file system at the end of the first run

vars == <<manifest, pc, run, files, i, file_name, url, file_path, response, pos,
          bar, extract_to, fs_files, fs_dirs, stdout, server, events, fin, first>>

----------------------------------------------------------------------------
(* Bounds of the model *)

MaxEntries == 2
MaxNameLen == 3
MaxBody == 3

(* Program constants *)

chunk_size == 1024

Chars == {"a", "."}
Bytes == {"P", "x"}
Statuses == {200, 404}

----------------------------------------------------------------------------
(* Sequences *)

SeqsUpTo(S, n) == UNION {[1..k -> S] : k \in 0..n}

RECURSIVE Concat(_)
Concat(ss) == IF ss = <<>> THEN <<>> ELSE Head(ss) \o Concat(Tail(ss))

\* str.rfind(c), 1-based: the last index of c in p, 0 when there is none
rfind(p, c) ==
    LET I == {k \in 1..Len(p) : p[k] = c}
    IN  IF I = {} THEN 0 ELSE CHOOSE k \in I : \A m \in I : m <= k

\* posixpath.join(a, b)
join(a, b) ==
    IF b # <<>> /\ b[1] = "/" THEN b
    ELSE IF a = <<>> \/ a[Len(a)] = "/" THEN a \o b
    ELSE a \o <<"/">> \o b

\* posixpath.basename(p)
basename(p) == SubSeq(p, rfind(p, "/") + 1, Len(p))

\* faulty variant: everything from the first dot of the file name on is taken as extension
splitext0_FirstDot(p) ==
    LET sepIndex == rfind(p, "/")
        dots == {k \in (sepIndex + 1)..Len(p) : p[k] = "."}
    IN  IF dots = {} THEN p
        ELSE SubSeq(p, 1, (CHOOSE k \in dots : \A m \in dots : k <= m) - 1)

\* posixpath.splitext(p)[0]: the extension starts at the last dot after the last
\* separator, unless only dots precede it in the file name
splitext0(p) ==
    LET sepIndex == rfind(p, "/")
        dotIndex == rfind(p, ".")
    IN  IF dotIndex > sepIndex
           /\ \E k \in (sepIndex + 1)..(dotIndex - 1) : p[k] # "."
        THEN SubSeq(p, 1, dotIndex - 1)
        ELSE p

\* os.makedirs(p, exist_ok=True): p and every missing parent
makedirs(dirs, p) ==
    dirs \cup {SubSeq(p, 1, k - 1) : k \in {m \in 2..Len(p) : p[m] = "/"}} \cup {p}

----------------------------------------------------------------------------
(* The manifest, as ET.parse and findall see it *)

Names == SeqsUpTo(Chars, MaxNameLen) \ {<<>>}

\* where the server keeps the file called name: http://host/<name>
UrlOf(name) == <<"http://host/">> \o name

\* a file element: file.get("name") is None when hasName is false (name is then
\* <<>>), file.find("ml:url", namespace) is None when hasUrl is false (url is
\* then <<>>)
FileElements(names, urls) ==
    [hasName : {TRUE}, name : names, hasUrl : {TRUE}, url : urls]
    \cup [hasName : {FALSE}, name : {<<>>}, hasUrl : {TRUE}, url : urls]
    \cup [hasName : {TRUE}, name : names, hasUrl : {FALSE}, url : {<<>>}]
    \cup [hasName : {FALSE}, name : {<<>>}, hasUrl : {FALSE}, url : {<<>>}]

\* the file elements that have a name and whose url is that of the name
Hosted(names) == {[hasName |-> TRUE, name |-> n, hasUrl |-> TRUE, url |-> UrlOf(n)] : n \in names}

\* Dataset.meta4: absent, not XML, or a metalink of at most n file elements
Manifests(elements, n) ==
    [state : {"missing", "malformed"}, files : {<<>>}]
    \cup [state : {"ok"}, files : SeqsUpTo(elements, n)]

(* The responses of the server *)

Bodies == SeqsUpTo(Bytes, MaxBody)

\* response.iter_content(chunk_size=1024): the body cut into chunks of at most
\* chunk_size bytes; a chunk may be empty
Chunkings(maxChunks) ==
    {cs \in SeqsUpTo(Bodies, maxChunks) :
        /\ \A k \in 1..Len(cs) : Len(cs[k]) <= chunk_size
        /\ Len(Concat(cs)) <= MaxBody}

Responses(maxChunks) ==
    [status : Statuses, hasLen : BOOLEAN, chunks : Chunkings(maxChunks)]

\* int(response.headers.get('content-length', 0))
total_size(r) == IF r.hasLen THEN Len(Concat(r.chunks)) ELSE 0

(* zipfile *)

\* zipfile.ZipFile(zip_path, 'r') opens content: it starts with the magic byte
IsZip(content) == content # <<>> /\ content[1] = "P"

\* the members of the archive, in archive order: every byte after the magic is
\* a member named by that byte, holding the archive's bytes
Members(content) == [k \in 1..(Len(content) - 1) |-> <<content[k + 1]>>]

\* zip_ref.extractall(to) after the first n members are written
extractall(fsf, to, content, n) ==
    LET ms == Members(content)
        written == {join(to, ms[k]) : k \in 1..n}
    IN  [p \in DOMAIN fsf \cup written |-> IF p \in written THEN content ELSE fsf[p]]

(* open *)

\* open(path, 'wb') raises IsADirectoryError
IsADirectory(dirs, path) == path \in dirs \/ basename(path) \in {<<".">>, <<".", ".">>}

\* faulty variant: open(path, 'ab'): created, or kept as it is
open_ab(fsf, path) ==
    [p \in DOMAIN fsf \cup {path} |-> IF p \in DOMAIN fsf THEN fsf[p] ELSE <<>>]

\* open(path, 'wb'): created or truncated
open_wb(fsf, path) == [p \in DOMAIN fsf \cup {path} |-> IF p = path THEN <<>> ELSE fsf[p]]

\* file.write(chunk)
file_write(fsf, path, chunk) == [fsf EXCEPT ![path] = @ \o chunk]

----------------------------------------------------------------------------
Event(ev, idx, arg) == [ev |-> ev, idx |-> idx, arg |-> arg]

NoResponse == [status |-> 0, hasLen |-> FALSE, chunks |-> <<>>]
NoBar == [total |-> 0, n |-> 0]

InitWith(manifests) ==
    /\ manifest \in manifests
    /\ pc = "start"
    /\ run = 1
    /\ files = <<>>
    /\ i = 0
    /\ file_name = <<>>
    /\ url = <<>>
    /\ file_path = <<>>
    /\ response = NoResponse
    /\ pos = 0
    /\ bar = NoBar
    /\ extract_to = <<>>
    /\ fs_files = <<>>
    /\ fs_dirs = {}
    /\ stdout = <<>>
    /\ server = <<>>
    /\ events = <<>>
    /\ fin = <<>>
    /\ first = [files |-> <<>>, dirs |-> {}]

\* faulty variant: the exception is caught in the loop, which goes on with the next element
Raise_Continue(evs, idx, what) ==
    /\ pc' = "for"
    /\ events' = Append(evs, Event("error", idx, what))

\* faulty variant: the exception is swallowed and the script falls through to its end
Raise_Swallow(evs, idx, what) ==
    /\ pc' = "final"
    /\ events' = Append(evs, Event("error", idx, what))

\* an unhandled exception ends the process: the error raised while entry idx
\* (0: before the loop) is processed, after the operations evs
Raise(evs, idx, what) ==
    /\ pc' = "crashed"
    /\ events' = Append(evs, Event("error", idx, what))

----------------------------------------------------------------------------
(* The script, lines 31-51 *)

\* tree = ET.parse(xml_file); root = tree.getroot()
Parse ==
    /\ pc = "start"
    /\ IF manifest.state = "ok"
       THEN /\ pc' = "mkdirs"
            /\ files' = manifest.files
            /\ events' = events
       ELSE /\ Raise(events, 0, IF manifest.state = "missing"
                                THEN "FileNotFoundError" ELSE "ParseError")
            /\ files' = files
    /\ UNCHANGED <<manifest, run, i, file_name, url, file_path, response, pos, bar,
                   extract_to, fs_files, fs_dirs, stdout, server, fin, first>>

\* os.makedirs("downloads", exist_ok=True); os.makedirs("data", exist_ok=True)
MakeBaseDirs ==
    /\ pc = "mkdirs"
    /\ fs_dirs' = makedirs(makedirs(fs_dirs, <<"downloads">>), <<"data">>)
    /\ pc' = "for"
    /\ UNCHANGED <<manifest, run, files, i, file_name, url, file_path, response, pos,
                   bar, extract_to, fs_files, stdout, server, events, fin, first>>

\* for file in root.findall("ml:file", namespace): the loop is over
ForDone ==
    /\ pc = "for"
    /\ i = Len(files)
    /\ pc' = "final"
    /\ UNCHANGED <<manifest, run, files, i, file_name, url, file_path, response, pos,
                   bar, extract_to, fs_files, fs_dirs, stdout, server, events, fin,
                   first>>

\* faulty variant: an element without name or url is skipped, not tripped over
ForNext_SkipMalformed ==
    /\ pc = "for"
    /\ i < Len(files)
    /\ i' = i + 1
    /\ LET file == files[i + 1]
       IN  /\ file_name' = file.name
           /\ IF ~file.hasUrl \/ ~file.hasName
              THEN UNCHANGED <<pc, url, file_path, events>>
              ELSE /\ url' = file.url
                   /\ file_path' = join(<<"downloads">>, file.name)
                   /\ pc' = "get"
                   /\ events' = Append(events, Event("download_begin", i + 1, 0))
    /\ UNCHANGED <<manifest, run, files, response, pos, bar, extract_to, fs_files,
                   fs_dirs, stdout, server, fin, first>>

\* the next file element: file_name, url and file_path (lines 42-45)
ForNext ==
    /\ pc = "for"
    /\ i < Len(files)
    /\ i' = i + 1
    /\ LET file == files[i + 1]
       IN  /\ file_name' = file.name
           /\ IF ~file.hasUrl
              THEN /\ Raise(events, i + 1, "AttributeError")
                   /\ UNCHANGED <<url, file_path>>
              ELSE /\ url' = file.url
                   /\ IF ~file.hasName
                      THEN /\ Raise(events, i + 1, "TypeError")
                           /\ UNCHANGED file_path
                      ELSE /\ file_path' = join(<<"downloads">>, file.name)
                           /\ pc' = "get"
                           /\ events' = Append(events, Event("download_begin", i + 1, 0))
    /\ UNCHANGED <<manifest, run, files, response, pos, bar, extract_to, fs_files,
                   fs_dirs, stdout, server, fin, first>>

\* print("Download and extraction complete.")
PrintComplete ==
    /\ pc = "final"
    /\ stdout' = Append(stdout, "complete")
    /\ pc' = "done"
    /\ first' = IF run = 1 THEN [files |-> fs_files, dirs |-> fs_dirs] ELSE first
    /\ UNCHANGED <<manifest, run, files, i, file_name, url, file_path, response, pos,
                   bar, extract_to, fs_files, fs_dirs, server, events, fin>>

\* the program is run again on the same manifest, file system and server
Rerun ==
    /\ pc = "done"
    /\ run = 1
    /\ run' = 2
    /\ pc' = "start"
    /\ files' = <<>>
    /\ i' = 0
    /\ file_name' = <<>>
    /\ url' = <<>>
    /\ file_path' = <<>>
    /\ response' = NoResponse
    /\ pos' = 0
    /\ bar' = NoBar
    /\ extract_to' = <<>>
    /\ stdout' = <<>>
    /\ events' = <<>>
    /\ fin' = <<>>
    /\ UNCHANGED <<manifest, fs_files, fs_dirs, server, first>>

----------------------------------------------------------------------------
(* download_file(url, destination_path), lines 7-21 *)

\* response = requests.get(url, stream=True); total_size (lines 8-9).  The
\* status of the response is not looked at.
RequestsGet(resps) ==
    /\ pc = "get"
    /\ \E r \in (IF url \in DOMAIN server THEN {server[url]} ELSE resps) :
          /\ response' = r
          /\ server' = IF url \in DOMAIN server THEN server ELSE (url :> r) @@ server
          /\ events' = Append(events, Event("response", i, r.status))
    /\ pc' = "open"
    /\ UNCHANGED <<manifest, run, files, i, file_name, url, file_path, pos, bar,
                   extract_to, fs_files, fs_dirs, stdout, fin, first>>

\* requests.get raises (no connection)
RequestsGetFails ==
    /\ pc = "get"
    /\ Raise(events, i, "ConnectionError")
    /\ UNCHANGED <<manifest, run, files, i, file_name, url, file_path, response, pos,
                   bar, extract_to, fs_files, fs_dirs, stdout, server, fin, first>>

\* with open(destination_path, 'wb') as file: with tqdm(total=total_size, ...)
OpenFile ==
    /\ pc = "open"
    /\ IF IsADirectory(fs_dirs, file_path)
       THEN /\ Raise(events, i, "IsADirectoryError")
            /\ UNCHANGED <<fs_files, bar, pos>>
       ELSE /\ fs_files' = open_wb(fs_files, file_path)
            /\ bar' = [total |-> total_size(response), n |-> 0]
            /\ pos' = 1
            /\ pc' = "stream"
            /\ events' = events
    /\ UNCHANGED <<manifest, run, files, i, file_name, url, file_path, response,
                   extract_to, fs_dirs, stdout, server, fin, first>>

\* faulty variant: a chunk is written only while the bar is short of its total
WriteChunk_UpToTotal ==
    /\ pc = "stream"
    /\ pos <= Len(response.chunks)
    /\ LET chunk == response.chunks[pos]
       IN  IF chunk # <<>> /\ bar.n < bar.total
           THEN /\ fs_files' = file_write(fs_files, file_path, chunk)
                /\ bar' = [bar EXCEPT !.n = @ + Len(chunk)]
           ELSE UNCHANGED <<fs_files, bar>>
    /\ pos' = pos + 1
    /\ UNCHANGED <<manifest, pc, run, files, i, file_name, url, file_path, response,
                   extract_to, fs_dirs, stdout, server, events, fin, first>>

\* one turn of: for chunk in response.iter_content(chunk_size=1024)
WriteChunk ==
    /\ pc = "stream"
    /\ pos <= Len(response.chunks)
    /\ LET chunk == response.chunks[pos]
       IN  IF chunk # <<>>
           THEN /\ fs_files' = file_write(fs_files, file_path, chunk)
                /\ bar' = [bar EXCEPT !.n = @ + Len(chunk)]
           ELSE UNCHANGED <<fs_files, bar>>
    /\ pos' = pos + 1
    /\ UNCHANGED <<manifest, pc, run, files, i, file_name, url, file_path, response,
                   extract_to, fs_dirs, stdout, server, events, fin, first>>

\* the connection breaks while the body is read, or file.write raises
StreamFails ==
    /\ pc = "stream"
    /\ Raise(events, i, "IOError")
    /\ UNCHANGED <<manifest, run, files, i, file_name, url, file_path, response, pos,
                   bar, extract_to, fs_files, fs_dirs, stdout, server, fin, first>>

\* faulty variant: the loop goes on to the next element without extracting
DownloadReturns_SkipExtract ==
    /\ pc = "stream"
    /\ pos > Len(response.chunks)
    /\ pc' = "for"
    /\ events' = Append(events, Event("download_end", i, 0))
    /\ UNCHANGED <<manifest, run, files, i, file_name, url, file_path, response, pos,
                   bar, extract_to, fs_files, fs_dirs, stdout, server, fin, first>>

\* the iterator is exhausted: the bar and the file are closed, download_file returns
DownloadReturns ==
    /\ pc = "stream"
    /\ pos > Len(response.chunks)
    /\ pc' = "extract"
    /\ events' = Append(events, Event("download_end", i, 0))
    /\ UNCHANGED <<manifest, run, files, i, file_name, url, file_path, response, pos,
                   bar, extract_to, fs_files, fs_dirs, stdout, server, fin, first>>

----------------------------------------------------------------------------
(* extract_zip(zip_path, destination_folder), lines 23-29 *)

\* faulty variant: the archive is unpacked into destination_folder itself
ExtractOpen_Flat ==
    /\ pc = "extract"
    /\ LET to == <<"data">>
           evs == Append(events, Event("extract_begin", i, 0))
       IN  /\ extract_to' = to
           /\ fs_dirs' = makedirs(fs_dirs, to)
           /\ IF IsZip(fs_files[file_path])
              THEN /\ pc' = "extractall"
                   /\ events' = evs
              ELSE Raise(evs, i, "BadZipFile")
    /\ UNCHANGED <<manifest, run, files, i, file_name, url, file_path, response, pos,
                   bar, fs_files, stdout, server, fin, first>>

\* zip_name, extract_to, os.makedirs(extract_to, exist_ok=True) and
\* zipfile.ZipFile(zip_path, 'r') (lines 24-27)
ExtractOpen ==
    /\ pc = "extract"
    /\ LET zip_name == splitext0(basename(file_path))
           to == join(<<"data">>, zip_name)
           evs == Append(events, Event("extract_begin", i, 0))
       IN  /\ extract_to' = to
           /\ fs_dirs' = makedirs(fs_dirs, to)
           /\ IF IsZip(fs_files[file_path])
              THEN /\ pc' = "extractall"
                   /\ events' = evs
              ELSE Raise(evs, i, "BadZipFile")
    /\ UNCHANGED <<manifest, run, files, i, file_name, url, file_path, response, pos,
                   bar, fs_files, stdout, server, fin, first>>

\* zip_ref.extractall(extract_to); print(f"Extracted: ...") (lines 28-29)
ExtractAll ==
    /\ pc = "extractall"
    /\ LET content == fs_files[file_path]
       IN  fs_files' = extractall(fs_files, extract_to, content, Len(content) - 1)
    /\ stdout' = Append(stdout, "extracted")
    /\ events' = Append(events, Event("extract_end", i, 0))
    /\ fin' = Append(fin, fs_files')
    /\ pc' = "for"
    /\ UNCHANGED <<manifest, run, files, i, file_name, url, file_path, response, pos,
                   bar, extract_to, fs_dirs, server, first>>

\* extractall raises after writing some of the members (no space, no permission)
ExtractFails ==
    /\ pc = "extractall"
    /\ LET content == fs_files[file_path]
       IN  \E n \in 0..(Len(content) - 2) :
              fs_files' = extractall(fs_files, extract_to, content, n)
    /\ Raise(events, i, "OSError")
    /\ UNCHANGED <<manifest, run, files, i, file_name, url, file_path, response, pos,
                   bar, extract_to, fs_dirs, stdout, server, fin, first>>

----------------------------------------------------------------------------
NextWith(resps) ==
    \/ Parse
    \/ MakeBaseDirs
    \/ ForDone
    \/ ForNext
    \/ PrintComplete
    \/ Rerun
    \/ RequestsGet(resps)
    \/ RequestsGetFails
    \/ OpenFile
    \/ WriteChunk
    \/ StreamFails
    \/ DownloadReturns
    \/ ExtractOpen
    \/ ExtractAll
    \/ ExtractFails

\* a body that arrives in one chunk, with its content-length
OneChunk(bodies) == {r \in Responses(1) : r.hasLen /\ Concat(r.chunks) \in bodies}

(* The script on every manifest of at most MaxEntries elements, well-formed or *)
(* not, over two names and two urls; a url answers with either status and a    *)
(* body that is a zip archive of one member or no archive.                     *)
TwoNames == {<<"a">>, <<"a", "a">>}
Init == InitWith(Manifests(FileElements(TwoNames, {UrlOf(n) : n \in TwoNames}), MaxEntries))
Next == NextWith(OneChunk({<<"x">>, <<"P", "x">>}))
Spec == Init /\ [][Next]_vars

(* The script on every manifest of no, one or two well-formed elements over    *)
(* all names of at most MaxNameLen characters, each at its own url; every url  *)
(* answers with one of two zip archives that share a member.                   *)
InitNames == InitWith({m \in Manifests(Hosted(Names), 2) : m.state = "ok"})
NextNames == NextWith({r \in OneChunk({<<"P", "x">>, <<"P", "x", "P">>}) : r.status = 200})
SpecNames == InitNames /\ [][NextNames]_vars

(* The script on one file element; the url answers with any body of at most    *)
(* MaxBody bytes, cut into at most MaxChunks chunks, with or without a         *)
(* content-length.                                                             *)
MaxChunks == 2
OneFile == {m \in Manifests(Hosted({<<"a">>}), 1) : m.state = "ok" /\ Len(m.files) = 1}
InitChunks == InitWith(OneFile)
NextChunks == NextWith(Responses(MaxChunks))
SpecChunks == InitChunks /\ [][NextChunks]_vars

----------------------------------------------------------------------------
(* Vocabulary of the properties *)

N == Len(manifest.files)

\* the operations of the run so far, without the responses received
Ops == SelectSeq(events, LAMBDA e : e.ev # "response")

OpNames == <<"download_begin", "download_end", "extract_begin", "extract_end">>

\* download(e1), extract(e1), ..., download(en), extract(en)
InOrder(n) == [k \in 1..(4 * n) |-> Event(OpNames[((k - 1) % 4) + 1], ((k - 1) \div 4) + 1, 0)]

IsPrefix(s, t) == Len(s) <= Len(t) /\ s = SubSeq(t, 1, Len(s))

Has(ev, idx) == \E p \in 1..Len(events) : events[p].ev = ev /\ events[p].idx = idx

Times(ev, idx) == Cardinality({p \in 1..Len(events) : events[p].ev = ev /\ events[p].idx = idx})

Failed == \E p \in 1..Len(events) : events[p].ev = "error"

\* the error the run ended with was raised at entry k as what
FailedAt(k, what) ==
    /\ pc = "crashed"
    /\ events[Len(events)] = Event("error", k, what)

\* a status for which requests' raise_for_status would raise
NonSuccess(status) == status >= 400

\* the response for entry k had a non-success status
NonSuccessAt(k) ==
    \E p \in 1..Len(events) :
        events[p].ev = "response" /\ events[p].idx = k /\ NonSuccess(events[p].arg)

\* downloads/<name> and data/<stem>, written out
ArtifactPath(name) == <<"downloads", "/">> \o name
FolderPath(stem) == <<"data", "/">> \o stem

\* the name with its extension stripped: what precedes the last dot, when
\* something other than dots does precede it
Stripped(name) ==
    LET cut == {k \in 1..Len(name) :
                   /\ name[k] = "."
                   /\ \A m \in (k + 1)..Len(name) : name[m] # "."
                   /\ \E m \in 1..(k - 1) : name[m] # "."}
    IN  IF cut = {} THEN name ELSE SubSeq(name, 1, (CHOOSE k \in cut : TRUE) - 1)

Under(p, folder) == Len(p) > Len(folder) + 1 /\ SubSeq(p, 1, Len(folder) + 1) = folder \o <<"/">>

\* the paths of entry j: its artifact and what lies in its extraction folder
Own(p, j) ==
    \/ p = ArtifactPath(manifest.files[j].name)
    \/ Under(p, FolderPath(Stripped(manifest.files[j].name)))

Count(lines, line) == Cardinality({p \in 1..Len(lines) : lines[p] = line})

----------------------------------------------------------------------------
(* C1: while nothing has failed, the operations of a run are a prefix of       *)
(* download(e1), extract(e1), ..., download(eN), extract(eN) in document order, *)
(* each operation ending before the next begins, and a run that reaches its    *)
(* end has performed exactly that sequence (nothing at all for N = 0).         *)
C1_DocumentOrder ==
    /\ ~Failed => IsPrefix(Ops, InOrder(N))
    /\ pc \in {"final", "done"} => Ops = InOrder(N)

C1_Witness == pc = "done" /\ N = 2 /\ Ops = InOrder(2)

(* C2: a response with a non-success status makes download_file fail: the next *)
(* thing that happens is the error that ends the run, the download does not    *)
(* return and extract_zip is not called on what was written.                   *)
C2_DownloaderFailsOnStatus ==
    \A p \in 1..Len(events) :
        (events[p].ev = "response" /\ NonSuccess(events[p].arg)) =>
            /\ \A q \in (p + 1)..Len(events) : events[q].ev = "error"
            /\ ~Has("download_end", events[p].idx)
            /\ ~Has("extract_begin", events[p].idx)

(* C3: once entry k got a non-success status, whatever the body, no entry      *)
(* after k is downloaded or extracted, and the artifact and extraction folder  *)
(* of every entry before k stay as they were when that entry finished.         *)
C3_StatusAbortsTheRest ==
    \A k \in 1..N :
        NonSuccessAt(k) =>
            /\ \A q \in 1..Len(events) : events[q].idx > k => events[q].ev = "error"
            /\ \A j \in 1..(k - 1) : \A path \in DOMAIN fin[j] :
                  Own(path, j) => path \in DOMAIN fs_files /\ fs_files[path] = fin[j][path]

\* the manifest cannot be read, or one of its file elements lacks name or url
Malformed(file) == ~file.hasName \/ ~file.hasUrl
BadManifest == manifest.state # "ok" \/ \E k \in 1..N : Malformed(manifest.files[k])

(* C4 as stated: with a manifest that is missing, malformed or has a file      *)
(* element without name or url anywhere, the run never completes and no entry  *)
(* is downloaded or extracted.                                                 *)
C4_NoEntryProcessed ==
    BadManifest =>
        /\ pc \notin {"final", "done"}
        /\ \A p \in 1..Len(events) : events[p].ev = "error"

(* C4 as amended: a manifest that is missing or not XML ends the run before    *)
(* anything is created or processed.  A file element k without name or url     *)
(* ends the run when the loop reaches it: the run never completes, nothing is  *)
(* downloaded or extracted for k or any later element, and when the run ends   *)
(* at k every element before k has been downloaded and extracted.              *)
C4_FailsAtTheElement ==
    /\ manifest.state # "ok" =>
          /\ pc \in {"start", "crashed"}
          /\ \A p \in 1..Len(events) : events[p] = Event("error", 0, events[p].arg)
          /\ fs_dirs = {} /\ fs_files = <<>>
    /\ \A k \in 1..N :
          Malformed(manifest.files[k]) =>
              /\ pc \notin {"final", "done"}
              /\ \A p \in 1..Len(events) :
                    events[p].idx >= k =>
                        /\ events[p].idx = k
                        /\ events[p] \in {Event("error", k, "AttributeError"),
                                          Event("error", k, "TypeError")}
                        /\ p = Len(events)
                        /\ pc = "crashed"
                        /\ SubSeq(Ops, 1, Len(Ops) - 1) = InOrder(k - 1)

C4_Witness ==
    /\ N = 2
    /\ ~Malformed(manifest.files[1])
    /\ FailedAt(2, "AttributeError")
    /\ Has("extract_end", 1)

(* C5: an error raised while entry k is downloaded or extracted ends the run   *)
(* there: it is the last thing that happens, entry k was started once, every   *)
(* entry before k has been downloaded and extracted and what it wrote is still *)
(* on disk, and nothing is done for an entry after k.                          *)
C5_NoRollbackNoContinuation ==
    \A p \in 1..Len(events) :
        (events[p].ev = "error" /\ events[p].idx >= 1) =>
            LET k == events[p].idx
            IN  /\ p = Len(events)
                /\ pc = "crashed"
                /\ Times("download_begin", k) <= 1
                /\ Times("extract_begin", k) <= 1
                /\ \A q \in 1..Len(events) : events[q].idx <= k
                /\ \A j \in 1..(k - 1) :
                      /\ Times("download_end", j) = 1
                      /\ Times("extract_end", j) = 1
                      /\ ArtifactPath(manifest.files[j].name) \in DOMAIN fs_files
                      /\ FolderPath(Stripped(manifest.files[j].name)) \in fs_dirs
                      /\ DOMAIN fin[j] \subseteq DOMAIN fs_files

C5_Witness ==
    /\ N = 2
    /\ FailedAt(2, "BadZipFile")
    /\ Has("extract_end", 1)
    /\ manifest.files[1].name # manifest.files[2].name

(* C10: the final message is printed at most once, as the last line, exactly   *)
(* when the run has reached its end, which it does only after every entry of   *)
(* the manifest has been downloaded and extracted (at once when there is       *)
(* none); a run in which an error was raised never prints it.                  *)
C10_FinalMessage ==
    /\ Count(stdout, "complete") = (IF pc = "done" THEN 1 ELSE 0)
    /\ pc = "done" =>
          /\ stdout[Len(stdout)] = "complete"
          /\ manifest.state = "ok"
          /\ \A k \in 1..N : Times("download_end", k) = 1 /\ Times("extract_end", k) = 1
    /\ Failed => pc = "crashed" /\ Count(stdout, "complete") = 0

C10_Witness == pc = "done" /\ N >= 1 /\ Count(stdout, "complete") = 1

----------------------------------------------------------------------------
NameOf(k) == manifest.files[k].name

\* what lies under downloads/ and the folders under data/
Artifacts == {path \in DOMAIN fs_files : path[1] = "downloads"}
Folders == {d \in fs_dirs : d[1] = "data" /\ Len(d) > 1}

(* C6 as stated: after a run that processed every entry, no two entries share  *)
(* an artifact path or an extraction folder, and there are N artifacts and N   *)
(* extraction folders.                                                         *)
C6_OneToOne ==
    pc = "done" =>
        /\ \A j, k \in 1..N :
              j # k => /\ ArtifactPath(NameOf(j)) # ArtifactPath(NameOf(k))
                       /\ FolderPath(Stripped(NameOf(j))) # FolderPath(Stripped(NameOf(k)))
        /\ Cardinality(Artifacts) = N
        /\ Cardinality(Folders) = N

(* C6 as amended: after a run that processed every entry, the artifacts are    *)
(* exactly the paths downloads/<name> of the entries and the extraction        *)
(* folders exactly the folders data/<name without extension>, and every file   *)
(* under data/ lies in one of them; so there is one artifact per distinct name *)
(* and one folder per distinct name-without-extension, N of each exactly when  *)
(* the names, respectively the names without extension, differ pairwise.       *)
C6_OnePerNameAndStem ==
    pc = "done" =>
        /\ Artifacts = {ArtifactPath(NameOf(k)) : k \in 1..N}
        /\ Folders = {FolderPath(Stripped(NameOf(k))) : k \in 1..N}
        /\ \A path \in DOMAIN fs_files \ Artifacts : \E d \in Folders : Under(path, d)
        /\ Cardinality(Artifacts) = Cardinality({NameOf(k) : k \in 1..N})
        /\ Cardinality(Folders) = Cardinality({Stripped(NameOf(k)) : k \in 1..N})
        /\ Cardinality(Artifacts) = N <=> \A j, k \in 1..N : NameOf(j) = NameOf(k) => j = k
        /\ Cardinality(Folders) = N <=>
              \A j, k \in 1..N : Stripped(NameOf(j)) = Stripped(NameOf(k)) => j = k

C6_Witness ==
    /\ pc = "done"
    /\ N = 2
    /\ NameOf(1) # NameOf(2)
    /\ Stripped(NameOf(1)) = Stripped(NameOf(2))
    /\ Cardinality(Artifacts) = 2
    /\ Cardinality(Folders) = 1

C8_Idempotent ==
    run = 2 =>
        /\ pc = "stream" => fs_files[file_path] = Concat(SubSeq(response.chunks, 1, pos - 1))
        /\ pc = "done" => fs_files = first.files /\ fs_dirs = first.dirs

C8_Witness ==
    /\ run = 2
    /\ pc = "done"
    /\ N = 2
    /\ NameOf(1) # NameOf(2)
    /\ Cardinality(DOMAIN fs_files) >= 3
    /\ fs_files = first.files

(* C9: with or without content-length, the file holds the chunks streamed so   *)
(* far, in order, the bar has counted their bytes against a total that is 0    *)
(* when the header is absent, and once download_file has returned the file is  *)
(* the whole body.                                                             *)
C9_WholeBody ==
    /\ pc = "stream" =>
          /\ fs_files[file_path] = Concat(SubSeq(response.chunks, 1, pos - 1))
          /\ bar.n = Len(fs_files[file_path])
          /\ bar.total = (IF response.hasLen THEN Len(Concat(response.chunks)) ELSE 0)
    /\ (i >= 1 /\ Has("download_end", i)) => fs_files[file_path] = Concat(response.chunks)

C9_Witness ==
    /\ i = 1
    /\ Has("download_end", 1)
    /\ ~response.hasLen
    /\ Len(response.chunks) = 2
    /\ \A k \in 1..2 : response.chunks[k] # <<>>
    /\ fs_files[file_path] = response.chunks[1] \o response.chunks[2]

====
